---- MODULE Spec2Model ----
(***************************************************************************)
(* A model of the DatesTimes package (src/__init__.py): the calendar and   *)
(* Julian-date arithmetic, the VSR time converters, the VSR time string    *)
(* increment and the layout dispatch of ISOtime2datetime.                  *)
(*                                                                         *)
(* The package is Python 2 code (src/__init__.py:789 is a Python 2 raise   *)
(* statement, :634 calls raw_input), so "/" between two ints is floor      *)
(* division (TLA+ \div) and int() of a float truncates towards zero.       *)
(*                                                                         *)
(* Floats.  Every float the modelled functions handle is a whole number    *)
(* of half days (doy + 0.5, jd - 0.5, jd - 2400000.5), which a double      *)
(* holds exactly.  Such a value x is represented by the integer 2*x; the   *)
(* names of the values kept in this form end in "2".                       *)
(*                                                                         *)
(* The package keeps no state between calls.  The state of the model is    *)
(* the last call made (fn, args), what it returned (ret), and the VSR      *)
(* time string that successive incr_VSR_timestring calls hand on.          *)
(***************************************************************************)
EXTENDS Integers, Sequences, FiniteSets, TLC

VARIABLES
  fn,        \* name of the function called last ("" before the first call)
  args,      \* its arguments, a tuple
  ret,       \* its outcome: [exc, kind, val]
  timestr,   \* the VSR time string 'YYYY DDD sssss' in hand (<<>>: none yet)
  timestr0,  \* the string the chain of increments started from
  ncalls,    \* increments applied to timestr0 so far
  utcoffset  \* seconds the host's local time is ahead of UTC, as the call
             \* read it through time.mktime (0 while no call has read it)

vars == <<fn, args, ret, timestr, timestr0, ncalls, utcoffset>>

(***************************************************************************)
(* Inputs                                                                  *)
(***************************************************************************)
\* years on each side of an anchor year that the calls are tried with
YearSpan == 1
\* the largest day of year tried (one past the longest year and beyond)
MaxDoy == 367
\* increments applied to one VSR time string
MaxIncr == 3
\* the largest latitude tried, in sixteenths of a degree (101 degrees)
MaxLat16 == 1616

\* the package's documented examples, century years, year 0, negative years,
\* the last year a datetime holds
AnchorYears == {-4713, -401, -100, 0, 1600, 1858, 1900, 1970, 2000, 2010, 2020, 9999}
Years == UNION {(a - YearSpan)..(a + YearSpan) : a \in AnchorYears}
Doys == 0..MaxDoy
Months == 1..12
Days == 1..31
\* seconds since midnight: both ends, minute and hour edges, the examples
SecondsOfDay == {0, 59, 60, 3599, 3600, 12345, 16212, 86399}

(***************************************************************************)
(* Outcomes of a call                                                      *)
(***************************************************************************)
Returns(kind, val) == [exc |-> "none", kind |-> kind, val |-> val]
Raises(e) == [exc |-> e, kind |-> "raise", val |-> <<>>]
\* Python's value None
None == Returns("None", <<>>)

\* int(x) of the float x = x2/2: truncation towards zero
PyInt2(x2) == IF x2 >= 0 THEN x2 \div 2 ELSE -((-x2) \div 2)

(***************************************************************************)
(* The Gregorian calendar, as reference: month lengths and day counts      *)
(* obtained by enumeration, not by the package's closed forms.             *)
(***************************************************************************)
IsLeapRef(y) == (y % 4 = 0 /\ y % 100 # 0) \/ y % 400 = 0

MonthLenRef(y, m) ==
  IF m = 2 THEN (IF IsLeapRef(y) THEN 29 ELSE 28)
  ELSE IF m \in {4, 6, 9, 11} THEN 30 ELSE 31

ValidDateRef(y, m, d) == m \in 1..12 /\ d >= 1 /\ d <= MonthLenRef(y, m)

YearLenRef(y) == IF IsLeapRef(y) THEN 366 ELSE 365

RECURSIVE DaysBeforeMonthRef(_, _)
DaysBeforeMonthRef(y, m) ==
  IF m <= 1 THEN 0 ELSE DaysBeforeMonthRef(y, m - 1) + MonthLenRef(y, m - 1)

DayOfYearRef(y, m, d) == DaysBeforeMonthRef(y, m) + d

\* days from 1 January of year a to 1 January of year b
DaysBetweenYearsRef(a, b) ==
  IF a <= b
    THEN 365 * (b - a) + Cardinality({k \in a..(b - 1) : IsLeapRef(k)})
    ELSE -(365 * (a - b) + Cardinality({k \in b..(a - 1) : IsLeapRef(k)}))

\* calendar days elapsed from 1858-11-17 to y-m-d
DaysSince1858Ref(y, m, d) ==
  DaysBetweenYearsRef(1858, y) + DayOfYearRef(y, m, d) - DayOfYearRef(1858, 11, 17)

\* weekday of day doy of year y, 1 = Sunday .. 7 = Saturday; 1858-11-17 was
\* a Wednesday
WeekdayRef(y, doy) == ((DaysSince1858Ref(y, 1, 1) + doy - 1 + 3) % 7) + 1

(***************************************************************************)
(* CalendarMath: src/__init__.py:184-291                                   *)
(***************************************************************************)
\* a leap_year that forgets the 400-year exception
leap_year_no400(year) ==
  IF year % 100 = 0 THEN 0
  ELSE IF year % 4 = 0 THEN 1 ELSE 0

leap_year(year) ==
  IF year % 100 = 0
    THEN (IF year % 400 = 0 THEN 1 ELSE 0)
    ELSE (IF year % 4 = 0 THEN 1 ELSE 0)

\* a calendar_date that leaves out the non-leap-year correction of doy
calendar_date_nofix(year, doy) ==
  IF doy < 32 THEN <<year, 1, doy>>
  ELSE IF doy < 60 + leap_year(year) THEN <<year, 2, doy - 31>>
  ELSE LET month == (100 * doy + 3139) \div 3061
       IN  <<year, month, doy + 2 - (month - 1) * 30 - ((month + 1) * 61) \div 100>>

\* int((doy+31.39)/30.61) = floor((100*doy+3139)/3061) and
\* int((month+1)*0.61) = floor(61*(month+1)/100): the operands are positive
\* and no quotient in range is within 1/3061 of a whole number
calendar_date(year, doy) ==
  IF doy < 32 THEN <<year, 1, doy>>
  ELSE IF doy < 60 + leap_year(year) THEN <<year, 2, doy - 31>>
  ELSE LET doy1 == IF leap_year(year) = 0 THEN doy + 1 ELSE doy
           month == (100 * doy1 + 3139) \div 3061
           day == doy1 + 2 - (month - 1) * 30 - ((month + 1) * 61) \div 100
       IN  <<year, month, day>>

\* a julian_date whose divisions truncate towards zero instead of flooring
julian_date_trunc(year, doy2) ==
  LET prev_year == year - 1
      Trunc(a, b) == IF a >= 0 THEN a \div b ELSE -((-a) \div b)
      num_leaps == Trunc(prev_year, 4) - Trunc(prev_year, 100)
                     + Trunc(Trunc(prev_year, 100), 4)
  IN  2 * 1721425 + 2 * 365 * prev_year + 2 * num_leaps - 1 + doy2

\* doy2 is twice the (possibly fractional) day of year; the result is
\* twice the Julian date
julian_date(year, doy2) ==
  LET prev_year == year - 1
      century == prev_year \div 100
      num_leaps == (prev_year \div 4) - century + (century \div 4)
  IN  2 * 1721425 + 2 * 365 * prev_year + 2 * num_leaps - 1 + doy2

\* a day_of_week that reduces day, not day - 1, modulo 7
day_of_week_mod(doy, year) ==
  LET day2 == julian_date(year, 2 * doy + 1) + 4
  IN  PyInt2(day2 - 14 * (PyInt2(day2) \div 7))

day_of_week(doy, year) ==
  LET day2 == julian_date(year, 2 * doy + 1) + 4
  IN  PyInt2(day2 - 14 * (PyInt2(day2 - 2) \div 7))

\* a day_of_year that applies the non-leap correction from February on
day_of_year_feb(year, month, day) ==
  LET d0 == day + (month - 1) * 30 + ((month + 1) * 61) \div 100 - 2
  IN  IF month < 2 THEN d0 + month
      ELSE IF leap_year(year) # 1 THEN d0 - 1 ELSE d0

day_of_year(year, month, day) ==
  LET d0 == day + (month - 1) * 30 + ((month + 1) * 61) \div 100 - 2
  IN  IF month <= 2 THEN d0 + month
      ELSE IF leap_year(year) # 1 THEN d0 - 1 ELSE d0

(***************************************************************************)
(* Modified Julian date: src/__init__.py:771-789                           *)
(***************************************************************************)
\* an MJD that subtracts 2400000 instead of 2400000.5
MJD_whole(a) ==
  IF Len(a) = 1
    THEN Returns("float2", <<2 * (40587 + a[1] \div (24 * 60 * 60))>>)
  ELSE IF Len(a) = 2
    THEN Returns("float2", <<julian_date(a[1], 2 * a[2]) - 4800000>>)
  ELSE IF Len(a) = 3
    THEN Returns("float2", <<julian_date(a[1], 2 * day_of_year(a[1], a[2], a[3])) - 4800000>>)
  ELSE Raises("RuntimeError")

\* the result is twice the MJD
MJD(a) ==
  IF Len(a) = 1
    THEN Returns("float2", <<2 * (40587 + a[1] \div (24 * 60 * 60))>>)
  ELSE IF Len(a) = 2
    THEN Returns("float2", <<julian_date(a[1], 2 * a[2]) - 4800001>>)
  ELSE IF Len(a) = 3
    THEN Returns("float2", <<julian_date(a[1], 2 * day_of_year(a[1], a[2], a[3])) - 4800001>>)
  ELSE Raises("RuntimeError")

(***************************************************************************)
(* Strings are sequences of one-character strings.  Formatting, splitting  *)
(* and parsing as Python does them.                                        *)
(***************************************************************************)
DigitChars == <<"0", "1", "2", "3", "4", "5", "6", "7", "8", "9">>
IsDigit(c) == \E i \in 1..10 : DigitChars[i] = c
DigitValue(c) == (CHOOSE i \in 1..10 : DigitChars[i] = c) - 1
IsSpace(c) == c = " "

\* str(n) for n >= 0
RECURSIVE Dec(_)
Dec(n) == IF n < 10 THEN <<DigitChars[n + 1]>>
          ELSE Dec(n \div 10) \o <<DigitChars[(n % 10) + 1]>>

\* str(n)
Str(n) == IF n < 0 THEN <<"-">> \o Dec(-n) ELSE Dec(n)

RECURSIVE PadLeft(_, _, _)
PadLeft(s, width, c) == IF Len(s) >= width THEN s ELSE PadLeft(<<c>> \o s, width, c)

\* "%<width>d" % n: right-justified, padded with spaces
FormatD(n, width) == PadLeft(Str(n), width, " ")

\* "%0<width>d" % n for n >= 0: padded with zeros
FormatZ(n, width) == PadLeft(Dec(n), width, "0")

\* s.split(): the maximal runs of non-blank characters
RECURSIVE SplitFrom(_, _, _)
SplitFrom(s, i, word) ==
  IF i > Len(s) THEN (IF word = <<>> THEN <<>> ELSE <<word>>)
  ELSE IF IsSpace(s[i])
    THEN (IF word = <<>> THEN <<>> ELSE <<word>>) \o SplitFrom(s, i + 1, <<>>)
    ELSE SplitFrom(s, i + 1, Append(word, s[i]))

Split(s) == SplitFrom(s, 1, <<>>)

RECURSIVE DigitsValue(_)
DigitsValue(s) ==
  IF s = <<>> THEN 0
  ELSE 10 * DigitsValue(SubSeq(s, 1, Len(s) - 1)) + DigitValue(s[Len(s)])

AllDigits(s) == s # <<>> /\ \A i \in 1..Len(s) : IsDigit(s[i])

\* int(s) succeeds on an optional sign followed by digits
IsIntLiteral(s) ==
  IF s # <<>> /\ s[1] \in {"-", "+"} THEN AllDigits(Tail(s)) ELSE AllDigits(s)

IntValue(s) ==
  IF s[1] = "-" THEN -DigitsValue(Tail(s))
  ELSE IF s[1] = "+" THEN DigitsValue(Tail(s))
  ELSE DigitsValue(s)

(***************************************************************************)
(* datetime.datetime, as far as the package uses it                        *)
(***************************************************************************)
\* DT.datetime(*t): the fields are range-checked (MINYEAR = 1,
\* MAXYEAR = 9999), anything else is a ValueError
DT_datetime(t) ==
  IF /\ t[1] >= 1 /\ t[1] <= 9999
     /\ ValidDateRef(t[1], t[2], t[3])
     /\ t[4] \in 0..23 /\ t[5] \in 0..59 /\ t[6] \in 0..59
    THEN Returns("datetime", t)
    ELSE Raises("ValueError")

\* t.toordinal(): 0001-01-01 is day 1
toordinal(t) ==
  LET y == t[1] - 1
  IN  y * 365 + y \div 4 - y \div 100 + y \div 400 + DayOfYearRef(t[1], t[2], t[3])

\* t.timetuple(): tm_wday counts from Monday = 0, tm_yday from 1, and
\* tm_isdst is -1
timetuple(t) ==
  Returns("struct_time",
          <<t[1], t[2], t[3], t[4], t[5], t[6],
            (toordinal(t) + 6) % 7,
            DayOfYearRef(t[1], t[2], t[3]), -1>>)

\* t.strftime("%Y%m%dT%H%M%S"); Python 2 refuses years before 1900
strftime_ISO(t) ==
  IF t[1] < 1900 THEN Raises("ValueError")
  ELSE Returns("str", FormatZ(t[1], 4) \o FormatZ(t[2], 2) \o FormatZ(t[3], 2) \o <<"T">>
                        \o FormatZ(t[4], 2) \o FormatZ(t[5], 2) \o FormatZ(t[6], 2))

(***************************************************************************)
(* datetime.strptime, as far as ISOtime2datetime uses it.  A format is a   *)
(* sequence of directives ("%Y") and literal characters.  Python turns it  *)
(* into a regular expression, one group of ordered alternatives for each   *)
(* directive, matches it at the start of the string by backtracking (the   *)
(* first alternative that lets the rest match wins) and refuses a match    *)
(* that leaves characters over.                                            *)
(***************************************************************************)
D09 == {"0", "1", "2", "3", "4", "5", "6", "7", "8", "9"}
D19 == D09 \ {"0"}

\* the alternatives of a directive or literal, each a sequence of character
\* classes; a blank of the format stands for a run of blanks; the match
\* ignores case
Alts(tok) ==
  CASE tok = "%Y" -> << <<D09, D09, D09, D09>> >>
    [] tok = "%m" -> << <<{"1"}, {"0", "1", "2"}>>, <<{"0"}, D19>>, <<D19>> >>
    [] tok = "%d" -> << <<{"3"}, {"0", "1"}>>, <<{"1", "2"}, D09>>, <<{"0"}, D19>>,
                        <<D19>>, <<{" "}, D19>> >>
    [] tok = "%H" -> << <<{"2"}, {"0", "1", "2", "3"}>>, <<{"0", "1"}, D09>>, <<D09>> >>
    [] tok = "%M" -> << <<{"0", "1", "2", "3", "4", "5"}, D09>>, <<D09>> >>
    [] tok = "%S" -> << <<{"6"}, {"0", "1"}>>, <<{"0", "1", "2", "3", "4", "5"}, D09>>,
                        <<D09>> >>
    [] tok = "%j" -> << <<{"3"}, {"6"}, {"0", "1", "2", "3", "4", "5", "6"}>>,
                        <<{"3"}, {"0", "1", "2", "3", "4", "5"}, D09>>,
                        <<{"1", "2"}, D09, D09>>, <<{"0"}, D19, D09>>,
                        <<{"0"}, {"0"}, D19>>, <<D19, D09>>, <<{"0"}, D19>>, <<D19>> >>
    [] tok = "%f" -> << <<D09, D09, D09, D09, D09, D09>>, <<D09, D09, D09, D09, D09>>,
                        <<D09, D09, D09, D09>>, <<D09, D09, D09>>, <<D09, D09>>, <<D09>> >>
    [] tok = " "  -> << <<{" "}, {" "}, {" "}>>, <<{" "}, {" "}>>, <<{" "}>> >>
    [] tok = "T"  -> << <<{"T", "t"}>> >>
    [] OTHER      -> << <<{tok}>> >>

AltMatches(alt, s, i) ==
  /\ i + Len(alt) - 1 <= Len(s)
  /\ \A k \in 1..Len(alt) : s[i + k - 1] \in alt[k]

NoMatch == <<-1>>

\* the widths matched by fmt[k], fmt[k+1], ... from position i of s on, or
\* NoMatch
RECURSIVE MatchFrom(_, _, _, _)
RECURSIVE TryAlts(_, _, _, _, _)
MatchFrom(s, i, fmt, k) ==
  IF k > Len(fmt) THEN <<>> ELSE TryAlts(s, i, fmt, k, 1)

TryAlts(s, i, fmt, k, a) ==
  LET alts == Alts(fmt[k])
  IN  IF a > Len(alts) THEN NoMatch
      ELSE IF AltMatches(alts[a], s, i)
        THEN LET rest == MatchFrom(s, i + Len(alts[a]), fmt, k + 1)
             IN  IF rest # NoMatch THEN <<Len(alts[a])>> \o rest
                 ELSE TryAlts(s, i, fmt, k, a + 1)
        ELSE TryAlts(s, i, fmt, k, a + 1)

RECURSIVE SumSeq(_)
SumSeq(w) == IF w = <<>> THEN 0 ELSE w[1] + SumSeq(Tail(w))

IsDigitChar(c) == c \in D09

RECURSIVE PadRight(_, _, _)
PadRight(s, width, c) == IF Len(s) >= width THEN s ELSE PadRight(Append(s, c), width, c)

\* the month and day of day doy of year y
MonthDayRef(y, doy) ==
  CHOOSE md \in (1..12) \X (1..31) :
    ValidDateRef(y, md[1], md[2]) /\ DayOfYearRef(y, md[1], md[2]) = doy

\* DT.datetime.strptime(s, fmt)
strptime(s, fmt) ==
  LET w == MatchFrom(s, 1, fmt, 1)
      Has(tok) == \E k \in 1..Len(fmt) : fmt[k] = tok
      Text(tok) == LET k == CHOOSE k \in 1..Len(fmt) : fmt[k] = tok
                       from == 1 + SumSeq(SubSeq(w, 1, k - 1))
                   IN  SubSeq(s, from, from + w[k] - 1)
      Num(tok) == IF Has(tok) THEN DigitsValue(SelectSeq(Text(tok), IsDigitChar)) ELSE 0
      year == Num("%Y")
      fraction == IF Has("%f") THEN DigitsValue(PadRight(Text("%f"), 6, "0")) ELSE 0
      time == <<Num("%H"), Num("%M"), Num("%S"), fraction>>
  IN  IF w = NoMatch THEN Raises("ValueError")
      ELSE IF SumSeq(w) # Len(s) THEN Raises("ValueError")
      ELSE IF year < 1 THEN Raises("ValueError")
      ELSE IF Has("%j")
        THEN LET julian == Num("%j")
                 wraps == julian > YearLenRef(year)
                 y == IF wraps THEN year + 1 ELSE year
                 md == MonthDayRef(y, IF wraps THEN julian - YearLenRef(year) ELSE julian)
             IN  IF y > 9999 THEN Raises("ValueError")
                 ELSE DT_datetime(<<y, md[1], md[2]>> \o time)
        ELSE DT_datetime(<<year, Num("%m"), Num("%d")>> \o time)

(***************************************************************************)
(* TimeFormatParser: src/__init__.py:295-348                               *)
(***************************************************************************)
Contains(s, c) == \E i \in 1..Len(s) : s[i] = c
\* s.index(c), counted from 0
Index(s, c) == (CHOOSE i \in 1..Len(s) : s[i] = c /\ \A j \in 1..(i - 1) : s[j] # c) - 1

FmtCalTHMS == <<"%Y", "-", "%m", "-", "%d", "T", "%H", ":", "%M", ":", "%S">>
FmtCalTHM == <<"%Y", "-", "%m", "-", "%d", "T", "%H", ":", "%M">>
FmtDoyTHM == <<"%Y", "-", "%j", "T", "%H", ":", "%M">>
\* a pattern for the 17-character day-of-year strings that has no seconds
FmtDoyTHMS_nosec == <<"%Y", "-", "%j", "T", "%H", ":", "%M">>
FmtDoyTHMS == <<"%Y", "-", "%j", "T", "%H", ":", "%M", ":", "%S">>
FmtCompactCal == <<"%Y", "%m", "%d", "T", "%H", "%M", "%S">>
FmtCompactDoyHM == <<"%Y", "%j", "T", "%H", "%M">>
FmtCompactDoyHMS == <<"%Y", "%j", "T", "%H", "%M", "%S">>
FmtCompactDoyFrac == <<"%Y", "%j", "T", "%H", "%M", "%S", ".", "%f">>
FmtSpaceFrac == <<"%Y", "-", "%m", "-", "%d", " ", "%H", ":", "%M", ":", "%S", ".", "%f">>
FmtSpace == <<"%Y", "-", "%m", "-", "%d", " ", "%H", ":", "%M", ":", "%S">>

\* the pattern of the branch the dispatch takes; <<>> where it takes none
ISOformat(ISOtime) ==
  IF Contains(ISOtime, "T")
    THEN IF Contains(ISOtime, ":")
      THEN IF Contains(ISOtime, "-")
        THEN IF Index(ISOtime, "T") = 10
          THEN IF Len(ISOtime) = 19 THEN FmtCalTHMS
               ELSE IF Len(ISOtime) = 16 THEN FmtCalTHM
               ELSE <<>>
          ELSE IF Index(ISOtime, "T") = 8
            THEN IF Len(ISOtime) = 14 THEN FmtDoyTHM
                 ELSE IF Len(ISOtime) = 17 THEN FmtDoyTHMS
                 ELSE <<>>
          ELSE <<>>
        ELSE <<>>
      ELSE IF Index(ISOtime, "T") = 8 THEN FmtCompactCal
      ELSE IF Index(ISOtime, "T") = 7
        THEN IF Len(ISOtime) = 12 THEN FmtCompactDoyHM
             ELSE IF Len(ISOtime) = 14 THEN FmtCompactDoyHMS
             ELSE FmtCompactDoyFrac
      ELSE <<>>
    ELSE IF Contains(ISOtime, ".") THEN FmtSpaceFrac
         ELSE FmtSpace

\* every branch returns what strptime makes of the string under its pattern;
\* a function that ends without a return statement returns None
ISOtime2datetime(ISOtime) ==
  LET format == ISOformat(ISOtime)
  IN  IF format = <<>> THEN None ELSE strptime(ISOtime, format)

(***************************************************************************)
(* VSRTimeConverter: src/__init__.py:414-458, 531-533                      *)
(***************************************************************************)
\* the clock reading now = <<year, doy, hour, minute, second>>
make_VSR_timestring(now) ==
  LET secs == now[3] * 3600 + now[4] * 60 + now[5] - 1
  IN  Dec(now[1]) \o <<" ">> \o FormatZ(now[2], 3) \o <<" ">> \o FormatD(secs, 5)

\* an increment that rolls the seconds over at midnight
incr_VSR_timestring_rollover(s) ==
  LET f == Split(s)
  IN  IF Len(f) # 3 \/ ~IsIntLiteral(f[3]) THEN Raises("ValueError")
      ELSE Returns("str", f[1] \o <<" ">> \o f[2] \o <<" ">>
                            \o FormatD((IntValue(f[3]) + 1) % 86400, 5))

incr_VSR_timestring(s) ==
  LET f == Split(s)
  IN  IF Len(f) # 3 \/ ~IsIntLiteral(f[3]) THEN Raises("ValueError")
      ELSE LET year == f[1]
               day == f[2]
               newsec == IntValue(f[3]) + 1
           IN  Returns("str", year \o <<" ">> \o day \o (<<" ">> \o FormatD(newsec, 5)))

incr_VSR_timestamp(s) == incr_VSR_timestring(s)

\* a VSR_to_datetime that takes the minutes of the day for the minutes
VSR_to_datetime_mins(VSR_time_tuple) ==
  LET seconds == VSR_time_tuple[3]
      hrs == seconds \div 3600
      mins == seconds \div 60
      secs == seconds - 60 * mins
  IN  DT_datetime(calendar_date(VSR_time_tuple[1], VSR_time_tuple[2]) \o <<hrs, mins, secs>>)

VSR_to_datetime(VSR_time_tuple) ==
  LET year == VSR_time_tuple[1]
      doy == VSR_time_tuple[2]
      seconds == VSR_time_tuple[3]
      hrs == seconds \div 3600
      mins == (seconds - 3600 * hrs) \div 60
      secs == seconds - 3600 * hrs - 60 * mins
      t == calendar_date(year, doy) \o <<hrs>> \o <<mins>> \o <<secs>>
  IN  DT_datetime(t)

VSR_to_timetuple(VSR_tuple) ==
  LET t == VSR_to_datetime(VSR_tuple)
  IN  IF t.exc # "none" THEN t ELSE timetuple(t.val)

VSR_timestring_to_ISOtime(ts) ==
  LET t == VSR_to_datetime(ts)
  IN  IF t.exc # "none" THEN t ELSE strftime_ISO(t.val)

\* s.split(sep) for a one-character sep: the pieces between the separators,
\* empty ones included
RECURSIVE SplitOnFrom(_, _, _, _)
SplitOnFrom(s, sep, i, word) ==
  IF i > Len(s) THEN <<word>>
  ELSE IF s[i] = sep THEN <<word>> \o SplitOnFrom(s, sep, i + 1, <<>>)
  ELSE SplitOnFrom(s, sep, i + 1, Append(word, s[i]))

SplitOn(s, sep) == SplitOnFrom(s, sep, 1, <<>>)

\* Epoch seconds.  Python's numbers hold them exactly; they pass the 32-bit
\* integers of the model checker, so the time stamp x is held as the pair
\* <<x div 86400, x mod 86400>>: whole days since 1970-01-01 and seconds
\* of that day.  EpochSeconds(days, secs) is days * 86400 + secs.
EpochSeconds(days, secs) == <<days + secs \div 86400, secs % 86400>>

\* calendar.timegm(tt): the epoch seconds of the UTC time tuple tt;
\* 1970-01-01 is day 719163
timegm(tt) ==
  EpochSeconds(toordinal(tt) - 719163, tt[4] * 3600 + tt[5] * 60 + tt[6])

\* time.mktime(tt) reads tt as local time: on a host whose local time is
\* offset seconds ahead of UTC the instant is offset seconds earlier
mktime(tt, offset) ==
  EpochSeconds(toordinal(tt) - 719163, tt[4] * 3600 + tt[5] * 60 + tt[6] - offset)

VSR_script_time(doy, h, m, s) ==
  FormatZ(doy, 3) \o <<"/">> \o FormatZ(h, 2) \o <<":">> \o FormatZ(m, 2)
    \o <<":">> \o FormatZ(s, 2)

VSR_script_time_to_timestamp(year, string) ==
  LET parts == SplitOn(string, "/")
  IN  IF Len(parts) # 2 THEN Raises("ValueError")
      ELSE LET doystr == parts[1]
               hms == SplitOn(parts[2], ":")
           IN  IF Len(hms) # 3 THEN Raises("ValueError")
               ELSE IF \E x \in {doystr, hms[1], hms[2], hms[3]} : ~IsIntLiteral(x)
                 THEN Raises("ValueError")
               ELSE LET ymd == calendar_date(year, IntValue(doystr))
                        t == DT_datetime(ymd \o <<IntValue(hms[1]), IntValue(hms[2]),
                                                  IntValue(hms[3])>>)
                    IN  IF t.exc # "none" THEN t
                        ELSE Returns("int", timegm(timetuple(t.val).val))

\* offset is the UTC offset of the host's local time, which time.mktime
\* applies
VSR_tuple_to_timestamp(year, doy, start_sec, offset) ==
  LET ymd == calendar_date(year, doy)
      DT0 == DT_datetime(ymd \o <<0, 0, 0>>)
  IN  IF DT0.exc # "none" THEN DT0
      ELSE LET UT0 == mktime(timetuple(DT0.val).val, offset)
           IN  Returns("float", EpochSeconds(UT0[1], UT0[2] + start_sec))

\* MJD2 is twice the MJD; sec_per_day is 86400
MJD_to_UnixTime(MJD2) ==
  EpochSeconds((MJD2 - 2 * 40587) \div 2, ((MJD2 - 2 * 40587) % 2) * 43200)

(***************************************************************************)
(* PositionFormatter: src/__init__.py:647-670                              *)
(*                                                                         *)
(* Coordinates are floats.  The model takes them from the multiples of     *)
(* 1/16 degree (or hour), on which every operation of deg_to_IAU_str is    *)
(* exact in binary floating point, and holds the coordinate x as the       *)
(* integer 16*x; the names of such values end in "16".                     *)
(***************************************************************************)
Abs(n) == IF n < 0 THEN -n ELSE n

\* str.lower() of a one-letter format
Lower(c) ==
  CASE c = "G" -> "g" [] c = "D" -> "d" [] c = "H" -> "h" [] OTHER -> c

\* "%+0<width>d" % n: a sign, then zeros up to the width
FormatSignedZ(n, width) ==
  <<IF n < 0 THEN "-" ELSE "+">> \o PadLeft(Dec(Abs(n)), width - 1, "0")

\* the digits of "%.1f" % (x16/16) for x16 >= 0: tenths rounded to nearest,
\* a tie to the even tenth
Tenths(x16) ==
  LET q == (10 * x16) \div 16
      r == (10 * x16) % 16
      n == IF r > 8 \/ (r = 8 /\ q % 2 = 1) THEN q + 1 ELSE q
  IN  Dec(n \div 10) \o <<".">> \o Dec(n % 10)

\* "%05.1f" % (x16/16)
FormatF(x16) ==
  IF x16 < 0 THEN <<"-">> \o PadLeft(Tenths(-x16), 4, "0")
  ELSE PadLeft(Tenths(x16), 5, "0")

\* "%+05.1f" % (x16/16)
FormatSignedF(x16) ==
  <<IF x16 < 0 THEN "-" ELSE "+">> \o PadLeft(Tenths(Abs(x16)), 4, "0")

\* position = <<16 * longitude, 16 * latitude>>; longitude >= 0, so int()
\* is the floor
deg_to_IAU_str(position, format) ==
  IF Lower(format) = "g"
    THEN LET ra_str == FormatF(position[1])
             dec_str == FormatSignedF(position[2])
         IN  Returns("str", ra_str \o dec_str)
    ELSE LET longitude16 == position[1]
             latitude16 == position[2]
             ra_hh == longitude16 \div 16
             ra_mm == (60 * (longitude16 - 16 * ra_hh)) \div 16
             ra_str == IF Lower(format) = "d"
                         THEN FormatZ(ra_hh, 3) \o FormatZ(ra_mm, 2)
                         ELSE FormatZ(ra_hh, 2) \o FormatZ(ra_mm, 2)
         IN  IF latitude16 = 0 THEN Raises("ZeroDivisionError")
             ELSE LET sign == IF latitude16 < 0 THEN -1 ELSE 1
                      dec_dd == Abs(latitude16) \div 16
                      dec_mm == (60 * (Abs(latitude16) - 16 * dec_dd)) \div 16
                      dec_str == FormatSignedZ(sign * dec_dd, 3) \o FormatZ(dec_mm, 2)
                  IN  Returns("str", ra_str \o dec_str)

(***************************************************************************)
(* State machine                                                           *)
(***************************************************************************)
Init ==
  /\ fn = ""
  /\ args = <<>>
  /\ ret = None
  /\ timestr = <<>>
  /\ timestr0 = <<>>
  /\ ncalls = 0
  /\ utcoffset = 0

\* The functions are pure: a behaviour is one call from the idle state.
Idle == fn = ""

Called(f, a, r) ==
  /\ fn' = f
  /\ args' = a
  /\ ret' = r
  /\ UNCHANGED <<timestr, timestr0, ncalls, utcoffset>>

Call_leap_year ==
  /\ Idle
  /\ \E year \in Years :
    Called("leap_year", <<year>>, Returns("int", <<leap_year(year)>>))

Call_calendar_date ==
  /\ Idle
  /\ \E year \in Years, doy \in Doys :
    Called("calendar_date", <<year, doy>>, Returns("tuple", calendar_date(year, doy)))

Call_day_of_year ==
  /\ Idle
  /\ \E year \in Years, month \in Months, day \in Days :
    Called("day_of_year", <<year, month, day>>,
           Returns("int", <<day_of_year(year, month, day)>>))

Call_julian_date ==
  /\ Idle
  /\ \E year \in Years, doy \in Doys, half \in {0, 1} :
    Called("julian_date", <<year, 2 * doy + half>>,
           Returns("float2", <<julian_date(year, 2 * doy + half)>>))

Call_day_of_week ==
  /\ Idle
  /\ \E year \in Years, doy \in Doys :
    Called("day_of_week", <<doy, year>>, Returns("int", <<day_of_week(doy, year)>>))

Call_MJD ==
  /\ Idle
  /\ \/ \E year \in Years, month \in Months, day \in Days :
          Called("MJD", <<year, month, day>>, MJD(<<year, month, day>>))
     \/ \E year \in Years, doy \in Doys :
          Called("MJD", <<year, doy>>, MJD(<<year, doy>>))

Call_VSR_to_datetime ==
  /\ Idle
  /\ \E year \in Years, doy \in Doys, seconds \in SecondsOfDay :
       Called("VSR_to_datetime", <<year, doy, seconds>>,
              VSR_to_datetime(<<year, doy, seconds>>))

Call_VSR_to_timetuple ==
  /\ Idle
  /\ \E year \in Years, doy \in Doys, seconds \in SecondsOfDay :
       Called("VSR_to_timetuple", <<year, doy, seconds>>,
              VSR_to_timetuple(<<year, doy, seconds>>))

Call_VSR_timestring_to_ISOtime ==
  /\ Idle
  /\ \E year \in Years, doy \in Doys, seconds \in SecondsOfDay :
       Called("VSR_timestring_to_ISOtime", <<year, doy, seconds>>,
              VSR_timestring_to_ISOtime(<<year, doy, seconds>>))

\* readings of the UTC clock that make_VSR_timestring formats
ClockYears == {2010, 2020}
ClockDoys == {1, 101, 366}
ClockTimes == {<<0, 0, 0>>, <<0, 0, 1>>, <<0, 1, 40>>, <<3, 25, 46>>,
               <<23, 59, 58>>, <<23, 59, 59>>}

Call_make_VSR_timestring ==
  /\ Idle
  /\ \E year \in ClockYears, doy \in ClockDoys, hms \in ClockTimes :
       LET s == make_VSR_timestring(<<year, doy>> \o hms)
       IN  /\ fn' = "make_VSR_timestring"
           /\ args' = <<>>
           /\ ret' = Returns("str", s)
           /\ timestr' = s
           /\ timestr0' = s
           /\ ncalls' = 0
           /\ UNCHANGED utcoffset

\* the caller hands the string it holds to the increment and keeps the result
Incremented(f, r) ==
  /\ timestr # <<>>
  /\ ncalls < MaxIncr
  /\ fn' = f
  /\ args' = <<timestr>>
  /\ ret' = r
  /\ timestr' = IF r.exc = "none" THEN r.val ELSE timestr
  /\ ncalls' = ncalls + 1
  /\ UNCHANGED <<timestr0, utcoffset>>

Call_incr_VSR_timestring ==
  Incremented("incr_VSR_timestring", incr_VSR_timestring(timestr))

Call_incr_VSR_timestamp ==
  Incremented("incr_VSR_timestamp", incr_VSR_timestamp(timestr))

\* years of the time stamps: the ends of datetime's range and the year
\* before it, the epoch, the documented example, a leap year
StampYears == {0, 1, 1970, 2010, 2020, 9999}
\* seconds since midnight handed to VSR_tuple_to_timestamp
StartSeconds == {0, 12345, 86399}
\* local time zones of the host: US Pacific standard time, UTC, central Europe
UTCOffsets == {-28800, 0, 3600}

Call_VSR_tuple_to_timestamp ==
  /\ Idle
  /\ \E offset \in UTCOffsets, year \in StampYears, doy \in Doys, start_sec \in StartSeconds :
       /\ fn' = "VSR_tuple_to_timestamp"
       /\ args' = <<year, doy, start_sec>>
       /\ ret' = VSR_tuple_to_timestamp(year, doy, start_sec, offset)
       /\ utcoffset' = offset
       /\ UNCHANGED <<timestr, timestr0, ncalls>>

Call_VSR_script_time_to_timestamp ==
  /\ Idle
  /\ \E year \in StampYears, doy \in Doys, hms \in ClockTimes :
       LET string == VSR_script_time(doy, hms[1], hms[2], hms[3])
       IN  Called("VSR_script_time_to_timestamp", <<year, string>>,
                  VSR_script_time_to_timestamp(year, string))

\* longitudes (hours or degrees, in sixteenths): 10.5, 359.9375
Longitudes16 == {168, 5759}
Latitudes16 == (-MaxLat16)..MaxLat16
Formats == {"h", "d", "g", "D"}

Call_deg_to_IAU_str ==
  /\ Idle
  /\ \E longitude16 \in Longitudes16, latitude16 \in Latitudes16, format \in Formats :
       Called("deg_to_IAU_str", <<<<longitude16, latitude16>>, format>>,
              deg_to_IAU_str(<<longitude16, latitude16>>, format))

\* the example of each accepted layout
IsoExamples == {
  <<"2", "0", "1", "5", "-", "1", "2", "-", "1", "9", "T", "1", "0", ":", "2", "9", ":", "2", "9">>,
  <<"2", "0", "1", "5", "-", "1", "2", "-", "1", "9", "T", "1", "0", ":", "2", "9">>,
  <<"2", "0", "1", "5", "-", "3", "5", "3", "T", "1", "0", ":", "2", "9">>,
  <<"2", "0", "1", "5", "-", "3", "5", "3", "T", "1", "0", ":", "2", "9", ":", "2", "9">>,
  <<"2", "0", "1", "5", "1", "2", "1", "9", "T", "1", "0", "2", "9", "2", "9">>,
  <<"2", "0", "1", "5", "3", "5", "3", "T", "1", "0", "2", "9">>,
  <<"2", "0", "1", "5", "3", "5", "3", "T", "1", "0", "2", "9", "2", "9">>,
  <<"2", "0", "1", "5", "3", "5", "3", "T", "1", "0", "2", "9", "2", "9", ".", "1", "9", "8">>,
  <<"2", "0", "1", "5", "-", "1", "2", "-", "1", "9", " ", "1", "0", ":", "2", "9", ":", "2", "9">>,
  <<"2", "0", "1", "5", "-", "1", "2", "-", "1", "9", " ", "1", "0", ":", "2", "9", ":", "2", "9", ".", "1", "9", "8", "7", "7", "6">> }

\* characters that make and break a layout
IsoChars == {"T", "t", ":", "-", ".", " ", "X", "0", "9"}

\* the examples, and each with one character replaced, dropped or added
IsoInputs ==
  IsoExamples
    \cup {[b EXCEPT ![i] = c] : <<b, i, c>> \in
             {x \in IsoExamples \X (1..26) \X IsoChars : x[2] <= Len(x[1])}}
    \cup {SubSeq(x[1], 1, x[2] - 1) \o SubSeq(x[1], x[2] + 1, Len(x[1])) :
             x \in {x \in IsoExamples \X (1..26) : x[2] <= Len(x[1])}}
    \cup {Append(x[1], x[2]) : x \in IsoExamples \X IsoChars}


(***************************************************************************)
(* The accepted layouts, as the docstring of ISOtime2datetime and section  *)
(* 4.3 list them: fields of fixed width ("Y" four digits, "j" three, the   *)
(* others two) between literal characters; a fraction "f" is the last      *)
(* field and has one to six digits.                                        *)
(***************************************************************************)
LayoutsRef == {
  <<"Y", "-", "m", "-", "d", "T", "H", ":", "M", ":", "S">>,
  <<"Y", "-", "m", "-", "d", "T", "H", ":", "M">>,
  <<"Y", "-", "j", "T", "H", ":", "M">>,
  <<"Y", "-", "j", "T", "H", ":", "M", ":", "S">>,
  <<"Y", "m", "d", "T", "H", "M", "S">>,
  <<"Y", "j", "T", "H", "M">>,
  <<"Y", "j", "T", "H", "M", "S">>,
  <<"Y", "j", "T", "H", "M", "S", ".", "f">>,
  <<"Y", "-", "m", "-", "d", " ", "H", ":", "M", ":", "S">>,
  <<"Y", "-", "m", "-", "d", " ", "H", ":", "M", ":", "S", ".", "f">> }

IsFieldRef(tok) == tok \in {"Y", "m", "d", "j", "H", "M", "S", "f"}

FieldWidthRef(tok) ==
  CASE tok = "Y" -> 4
    [] tok = "j" -> 3
    [] tok \in {"m", "d", "H", "M", "S"} -> 2
    [] OTHER -> 1

\* where token k of layout L starts
RECURSIVE StartRef(_, _)
StartRef(L, k) == IF k <= 1 THEN 1 ELSE StartRef(L, k - 1) + FieldWidthRef(L[k - 1])

HasFieldRef(L, tok) == \E k \in 1..Len(L) : L[k] = tok

\* the characters of field tok of layout L in s
FieldTextRef(s, L, tok) ==
  LET k == CHOOSE k \in 1..Len(L) : L[k] = tok
  IN  SubSeq(s, StartRef(L, k),
             IF tok = "f" THEN Len(s) ELSE StartRef(L, k) + FieldWidthRef(tok) - 1)

FieldValueRef(s, L, tok) ==
  IF HasFieldRef(L, tok) THEN DigitsValue(FieldTextRef(s, L, tok)) ELSE 0

\* s has the shape of layout L: its length, its literal characters, digits
\* in its fields
HasShapeRef(s, L) ==
  /\ IF L[Len(L)] = "f"
       THEN Len(s) - StartRef(L, Len(L)) + 1 \in 1..6
       ELSE Len(s) = StartRef(L, Len(L) + 1) - 1
  /\ \A k \in 1..Len(L) :
       IF IsFieldRef(L[k])
         THEN \A c \in {FieldTextRef(s, L, L[k])[i] :
                          i \in 1..Len(FieldTextRef(s, L, L[k]))} : c \in D09
         ELSE s[StartRef(L, k)] = L[k]

\* s is a well-formed string of layout L: it has the shape, and its fields
\* are a date of the years 0001..9999 and a time of day
WellFormedRef(s, L) ==
  /\ HasShapeRef(s, L)
  /\ FieldValueRef(s, L, "Y") \in 1..9999
  /\ IF HasFieldRef(L, "j")
       THEN FieldValueRef(s, L, "j") \in 1..YearLenRef(FieldValueRef(s, L, "Y"))
       ELSE ValidDateRef(FieldValueRef(s, L, "Y"), FieldValueRef(s, L, "m"),
                         FieldValueRef(s, L, "d"))
  /\ FieldValueRef(s, L, "H") \in 0..23
  /\ FieldValueRef(s, L, "M") \in 0..59
  /\ FieldValueRef(s, L, "S") \in 0..59

\* the date and time a well-formed string of layout L stands for, with the
\* fraction in microseconds
DateTimeRef(s, L) ==
  LET year == FieldValueRef(s, L, "Y")
      md == IF HasFieldRef(L, "j") THEN MonthDayRef(year, FieldValueRef(s, L, "j"))
            ELSE <<FieldValueRef(s, L, "m"), FieldValueRef(s, L, "d")>>
      micro == IF HasFieldRef(L, "f")
                 THEN DigitsValue(PadRight(FieldTextRef(s, L, "f"), 6, "0"))
                 ELSE 0
  IN  <<year, md[1], md[2], FieldValueRef(s, L, "H"), FieldValueRef(s, L, "M"),
        FieldValueRef(s, L, "S"), micro>>

\* the strptime pattern with the fields of layout L, in its order
PatternRef(L) ==
  [k \in 1..Len(L) |->
     CASE L[k] = "Y" -> "%Y" [] L[k] = "m" -> "%m" [] L[k] = "d" -> "%d"
       [] L[k] = "j" -> "%j" [] L[k] = "H" -> "%H" [] L[k] = "M" -> "%M"
       [] L[k] = "S" -> "%S" [] L[k] = "f" -> "%f" [] OTHER -> L[k]]

\* field values written in the layouts
LayoutFields ==
  [Y : {0, 1, 2015, 2016, 9999}, m : {1, 2, 12}, d : {1, 29, 31}, j : {1, 60, 366},
   H : {0, 23}, M : {0, 59}, S : {0, 59},
   f : {<<"1">>, <<"1", "9", "8">>, <<"1", "9", "8", "7", "7", "6">>}]

RECURSIVE Render(_, _, _)
Render(L, k, v) ==
  IF k > Len(L) THEN <<>>
  ELSE (CASE L[k] = "Y" -> FormatZ(v.Y, 4)
          [] L[k] = "m" -> FormatZ(v.m, 2)
          [] L[k] = "d" -> FormatZ(v.d, 2)
          [] L[k] = "j" -> FormatZ(v.j, 3)
          [] L[k] = "H" -> FormatZ(v.H, 2)
          [] L[k] = "M" -> FormatZ(v.M, 2)
          [] L[k] = "S" -> FormatZ(v.S, 2)
          [] L[k] = "f" -> v.f
          [] OTHER -> <<L[k]>>) \o Render(L, k + 1, v)

\* strings of every layout
LayoutInputs == {Render(x[1], 1, x[2]) : x \in LayoutsRef \X LayoutFields}

Call_ISOtime2datetime ==
  /\ Idle
  /\ \E ISOtime \in IsoInputs \cup LayoutInputs :
       Called("ISOtime2datetime", <<ISOtime>>, ISOtime2datetime(ISOtime))

NextCal ==
  \/ Call_leap_year
  \/ Call_calendar_date
  \/ Call_day_of_year
  \/ Call_julian_date
  \/ Call_day_of_week
  \/ Call_MJD

NextVSR ==
  \/ Call_VSR_to_datetime
  \/ Call_VSR_to_timetuple
  \/ Call_VSR_timestring_to_ISOtime
  \/ Call_make_VSR_timestring
  \/ Call_incr_VSR_timestring
  \/ Call_incr_VSR_timestamp
  \/ Call_VSR_tuple_to_timestamp
  \/ Call_VSR_script_time_to_timestamp

NextISO == Call_ISOtime2datetime

NextIAU == Call_deg_to_IAU_str

Next == NextCal \/ NextVSR \/ NextISO \/ NextIAU

Spec == Init /\ [][Next]_vars

(***************************************************************************)
(* Properties of CalendarMath and MJD, checked under Spec               *)
(***************************************************************************)
CalledWith(f, n) == fn = f /\ Len(args) = n

\* C1: for every valid Gregorian date (year, month, day), Feb 29 of leap
\* years included, calendar_date(year, day_of_year(year, month, day)) is
\* (year, month, day).
C1_RoundTrip ==
  (CalledWith("day_of_year", 3) /\ ValidDateRef(args[1], args[2], args[3]))
    => calendar_date(args[1], ret.val[1]) = args

C1_Witness ==
  /\ CalledWith("day_of_year", 3)
  /\ args = <<2000, 2, 29>>
  /\ ret.val = <<60>>
  /\ calendar_date(2000, 60) = <<2000, 2, 29>>

\* C2: for every valid Gregorian date, day_of_year(year, month, day) is the
\* sum of the lengths of the preceding months plus day (February has 29
\* days exactly in years divisible by 4 and not by 100 unless by 400);
\* day_of_year(2020, 6, 19) = 171.
C2_DayOfYear ==
  /\ (CalledWith("day_of_year", 3) /\ ValidDateRef(args[1], args[2], args[3]))
       => ret = Returns("int", <<DayOfYearRef(args[1], args[2], args[3])>>)
  /\ (CalledWith("day_of_year", 3) /\ args = <<2020, 6, 19>>) => ret.val = <<171>>

C2_Witness ==
  CalledWith("day_of_year", 3) /\ args = <<2020, 6, 19>> /\ ret.val = <<171>>

\* C3: julian_date counts days without gap or overlap across every year
\* boundary: julian_date(year + 1, 1) = julian_date(year, 365 +
\* leap_year(year)) + 1, and julian_date(-4713, 328.5) = 0.
C3_YearBoundary ==
  /\ (CalledWith("julian_date", 2) /\ args[2] = 2 * (365 + leap_year(args[1])))
       => julian_date(args[1] + 1, 2 * 1) = ret.val[1] + 2 * 1
  /\ (CalledWith("julian_date", 2) /\ args = <<-4713, 657>>) => ret.val = <<0>>

C3_Witness ==
  /\ CalledWith("julian_date", 2)
  /\ args = <<0, 2 * 366>>
  /\ leap_year(0) = 1
  /\ julian_date(1, 2) = ret.val[1] + 2

\* C4: for every valid calendar date, MJD(year, month, day) is the whole
\* number of calendar days elapsed from 1858-11-17 to that date (negative
\* before it); MJD(1858, 11, 17) = 0 and MJD(1970, 1, 1) = 40587.
C4_MJD ==
  /\ (CalledWith("MJD", 3) /\ ValidDateRef(args[1], args[2], args[3]))
       => ret = Returns("float2", <<2 * DaysSince1858Ref(args[1], args[2], args[3])>>)
  /\ (CalledWith("MJD", 3) /\ args = <<1858, 11, 17>>) => ret.val = <<0>>
  /\ (CalledWith("MJD", 3) /\ args = <<1970, 1, 1>>) => ret.val = <<2 * 40587>>

C4_Witness ==
  CalledWith("MJD", 3) /\ args = <<1857, 2, 28>> /\ ret.val[1] < 0 /\ ret.val[1] % 2 = 0

\* C5: for every doy in 1..365+leap_year(year), day_of_week(doy, year) is in
\* 1..7 and congruent modulo 7 to floor(julian_date(year, doy + 0.5)) + 2,
\* with 1 = Sunday; day 171 of 2020, a Friday, gives 6.
C5_DayOfWeek ==
  /\ (/\ CalledWith("day_of_week", 2)
      /\ args[1] >= 1
      /\ args[1] <= 365 + leap_year(args[2]))
       => /\ ret.kind = "int"
          /\ ret.val[1] \in 1..7
          /\ ret.val[1] % 7 = ((julian_date(args[2], 2 * args[1] + 1) \div 2) + 2) % 7
          /\ ret.val[1] = WeekdayRef(args[2], args[1])
  /\ (CalledWith("day_of_week", 2) /\ args = <<171, 2020>>) => ret.val = <<6>>

\* a Saturday: the day number is a multiple of 7
C5_Witness ==
  CalledWith("day_of_week", 2) /\ args = <<172, 2020>> /\ ret.val = <<7>>

\* C9: calendar_date(year, doy) fails with an error, and returns no tuple,
\* whenever doy = 0 or doy > 365 + leap_year(year).
C9_RangeError ==
  (CalledWith("calendar_date", 2)
     /\ (args[2] = 0 \/ args[2] > 365 + leap_year(args[1])))
    => ret.exc # "none"

(***************************************************************************)
(* Properties of the VSR converters and of ISOtime2datetime                *)
(***************************************************************************)
ValidDoy(year, doy) == doy >= 1 /\ doy <= 365 + leap_year(year)

\* the outcome C6 describes for the call VSR_to_datetime(args)
C6_Outcome ==
  /\ ret.exc = "none"
  /\ ret.kind = "datetime"
  /\ Len(ret.val) = 6
  /\ SubSeq(ret.val, 1, 3) = calendar_date(args[1], args[2])
  /\ ret.val[4] \in 0..23
  /\ ret.val[5] \in 0..59
  /\ ret.val[6] \in 0..59
  /\ 3600 * ret.val[4] + 60 * ret.val[5] + ret.val[6] = args[3]

C7_DateOfDoy ==
  /\ (CalledWith("calendar_date", 2) /\ ValidDoy(args[1], args[2]))
       => /\ ret.val[1] = args[1]
          /\ ValidDateRef(ret.val[1], ret.val[2], ret.val[3])
          /\ day_of_year(ret.val[1], ret.val[2], ret.val[3]) = args[2]
  /\ (/\ CalledWith("VSR_to_timetuple", 3)
      /\ ValidDoy(args[1], args[2])
      /\ args[1] \in 1..9999)
       => /\ ret.kind = "struct_time"
          /\ ret.val[1] = args[1]
          /\ ValidDateRef(ret.val[1], ret.val[2], ret.val[3])
          /\ day_of_year(ret.val[1], ret.val[2], ret.val[3]) = args[2]
          /\ ret.val[8] = args[2]
  /\ (/\ CalledWith("VSR_timestring_to_ISOtime", 3)
      /\ ValidDoy(args[1], args[2])
      /\ args[1] \in 1900..9999)
       => /\ ret.kind = "str"
          /\ LET month == DigitsValue(SubSeq(ret.val, 5, 6))
                 day == DigitsValue(SubSeq(ret.val, 7, 8))
             IN  /\ DigitsValue(SubSeq(ret.val, 1, 4)) = args[1]
                 /\ ValidDateRef(args[1], month, day)
                 /\ day_of_year(args[1], month, day) = args[2]
  /\ (CalledWith("VSR_to_timetuple", 3) /\ args = <<2010, 101, 12345>>)
       => ret.val = <<2010, 4, 11, 3, 25, 45, 6, 101, -1>>
  /\ (CalledWith("VSR_timestring_to_ISOtime", 3) /\ args = <<2010, 101, 12345>>)
       => ret.val = <<"2", "0", "1", "0", "0", "4", "1", "1", "T",
                      "0", "3", "2", "5", "4", "5">>

C7_Witness ==
  /\ CalledWith("VSR_to_timetuple", 3)
  /\ args = <<2010, 101, 12345>>
  /\ ret.val[2] = 4
  /\ ret.val[3] = 11
  /\ ret.val[8] = 101

\* C8: ISOtime2datetime never returns None: for every input string it
\* returns a parsed date-time or fails with an explicit error.
C8_NeverNone ==
  CalledWith("ISOtime2datetime", 1) => ret.kind # "None"

\* C10: after any number n >= 1 of successive incr_VSR_timestring or
\* incr_VSR_timestamp calls on a VSR time string 'Y D S', the year and day
\* fields are still Y and D and the seconds field is S + n, also when
\* S + n reaches or passes 86400.
C10_NoRollover ==
  ncalls >= 1 =>
    LET f0 == Split(timestr0)
        f == Split(timestr)
    IN  /\ fn \in {"incr_VSR_timestring", "incr_VSR_timestamp"}
        /\ ret = Returns("str", timestr)
        /\ Len(f) = 3
        /\ f[1] = f0[1]
        /\ f[2] = f0[2]
        /\ IsIntLiteral(f[3])
        /\ IntValue(f[3]) = IntValue(f0[3]) + ncalls

C10_Witness ==
  /\ ncalls >= 2
  /\ fn = "incr_VSR_timestamp"
  /\ Split(timestr0)[3] = <<"8", "6", "3", "9", "8">>
  /\ IntValue(Split(timestr)[3]) >= 86400
  /\ Split(timestr)[2] = Split(timestr0)[2]

(***************************************************************************)
(* Properties of the UNIX time stamps                                      *)
(***************************************************************************)
\* hours, minutes and seconds of sec seconds since midnight
HMSOf(sec) == <<sec \div 3600, (sec % 3600) \div 60, sec % 60>>

\* C11: for every doy in 1..365+leap_year(year) and seconds in 0..86399,
\* VSR_tuple_to_timestamp(year, doy, seconds) is the UTC epoch seconds of
\* midnight of calendar_date(year, doy) plus seconds, that is
\* 86400 * (MJD(year, doy) - 40587) + seconds, whatever the local time zone
\* of the host, and so agrees with VSR_script_time_to_timestamp(year,
\* 'DDD/HH:MM:SS') for the same instant.  Stated for the years 1..9999, for
\* which the date is a datetime.
C11_UTCTimestamp ==
  (/\ CalledWith("VSR_tuple_to_timestamp", 3)
   /\ args[1] \in 1..9999
   /\ ValidDoy(args[1], args[2])
   /\ args[3] \in 0..86399)
    => /\ LET UT0 == MJD_to_UnixTime(MJD(<<args[1], args[2]>>).val[1])
          IN  ret = Returns("float", EpochSeconds(UT0[1], UT0[2] + args[3]))
       /\ LET hms == HMSOf(args[3])
          IN  ret.val = VSR_script_time_to_timestamp(
                          args[1], VSR_script_time(args[2], hms[1], hms[2], hms[3])).val

(***************************************************************************)
(* Properties of the IAU designation                                       *)
(***************************************************************************)
\* the last n characters of s
Last(s, n) == SubSeq(s, Len(s) - n + 1, Len(s))

\* C12: in deg_to_IAU_str with format 'h' or 'd', for every nonzero
\* latitude with |latitude| < 100 the latitude part is a sign character,
\* the two-digit truncated whole degrees of |latitude| and the two-digit
\* truncated minutes; the sign is '-' exactly when latitude < 0 and '+'
\* exactly when latitude > 0, also for -1 < latitude < 0.
C12_LatitudeSign ==
  (/\ CalledWith("deg_to_IAU_str", 2)
   /\ Lower(args[2]) \in {"h", "d"}
   /\ args[1][2] # 0
   /\ Abs(args[1][2]) < 16 * 100)
    => LET latitude16 == args[1][2]
           degrees == Abs(latitude16) \div 16
           minutes == (60 * (Abs(latitude16) % 16)) \div 16
       IN  /\ ret.kind = "str"
           /\ Last(ret.val, 5) = <<IF latitude16 < 0 THEN "-" ELSE "+">>
                                   \o FormatZ(degrees, 2) \o FormatZ(minutes, 2)

(***************************************************************************)
(* Properties of the dispatch of ISOtime2datetime                          *)
(***************************************************************************)
\* C13: the dispatch of ISOtime2datetime (presence of 'T', ':' and '-',
\* index of 'T', length, presence of '.') takes a well-formed string of each
\* accepted layout to the branch whose strptime pattern has the fields of
\* the layout in the same order and widths: the call returns what that
\* pattern parses, which is the date-time the fields of the string stand
\* for, so every layout yields a value.
C13_Dispatch ==
  CalledWith("ISOtime2datetime", 1)
    => \A L \in LayoutsRef :
         WellFormedRef(args[1], L)
           => /\ ISOformat(args[1]) = PatternRef(L)
              /\ ret = strptime(args[1], PatternRef(L))
              /\ ret = Returns("datetime", DateTimeRef(args[1], L))

\* a well-formed YYYY-DDDTHH:MM:SS string has been parsed, seconds and all
C13_Witness ==
  /\ CalledWith("ISOtime2datetime", 1)
  /\ WellFormedRef(args[1], <<"Y", "-", "j", "T", "H", ":", "M", ":", "S">>)
  /\ ret.kind = "datetime"
  /\ ret.val[6] = 59

====
